---- MODULE Spec2Model ----
(***************************************************************************)
(* DegreeDash: the relational data model and the repository operations    *)
(* over it (backend/models/User.js, backend/models/CourseModel.js, the    *)
(* course and professor routes).                                           *)
(*                                                                         *)
(* Every repository method is an async function: each `await` of a        *)
(* storage call is one atomic statement against the shared database, and  *)
(* between two awaits of one call the statements of other in-flight calls *)
(* may run.  A call is therefore a process with a program counter, one    *)
(* step per awaited statement.                                             *)
(***************************************************************************)
EXTENDS Integers, Sequences, FiniteSets, TLC

(***************************************************************************)
(* Bounds of the model.                                                    *)
(***************************************************************************)
NumProcs == 2
MaxUsers == 2
MaxAlumniRows == 2
MaxClock == 2
MaxCourses == 2
MaxReviews == 2
MaxProfessors == 3

Procs == 1..NumProcs

(***************************************************************************)
(* Value domains the inputs are drawn from.                                *)
(***************************************************************************)
NULL == "NULL"
MicrosoftIds == {"ms-1", "ms-2"}
UserTypeInputs == {"faculty"}
UpdateTypeInputs == {"alumni", "current"}
\* the values the user_type column admits
UserTypes == {"current", "alumni", "faculty", "staff"}
\* user types callers pass beyond the usual ones: a fourth kind, an unknown kind, null
OtherTypeInputs == {"staff", "admin", NULL}
YearInputs == {"2024"}
\* the years a profile update carries
GraduationYears == {"2020", "2024"}
Employers == {"Acme", "Initech"}
MentorInputs == {"true"}
\* the user ids callers pass
UserIdInputs == 1..MaxUsers
CourseCodes == {"COMP 3030", "MATH 1010"}
CourseNames == {"Algorithms"}
Departments == {"COMP"}
Descriptions == {"Sorting and graphs"}
\* the course ids callers pass
CourseIdInputs == 1..MaxCourses
\* the ratings a review request carries; the route stores them as they come
RatingInputs == {0, 3, 4, 5}
ProfessorNames == {"Dr. Jane Lee", "Dr. Ada Roy"}
\* short texts for the catalogue searches, and the keywords searched for
ShortCodes == {"CS 1", "M2"}
ShortNames == {"Ab"}
ShortDescriptions == {"s1"}
FilterDepartments == {"COMP", "MATH"}
Keywords == {"", " ", "s", "S1", " a", "_", "%"}


VARIABLES
    users,            \* table users
    alumni_network,   \* table alumni_network
    courses,          \* table courses
    reviews,          \* table reviews
    professors,       \* table professors
    lastID,           \* the routes' connection: rowid of its last successful INSERT
    now,              \* the value CURRENT_TIMESTAMP yields
    proc              \* the in-flight calls, one per caller

userVars == <<users, alumni_network>>
courseVars == <<courses, reviews, professors, lastID>>
vars == <<users, alumni_network, courses, reviews, professors, lastID, now, proc>>

(***************************************************************************)
(* Storage primitives.                                                     *)
(***************************************************************************)
NoRow == [id |-> 0]

MaxOf(S) == CHOOSE x \in S : \A y \in S : y <= x

\* the rowid an INSERT generates: one more than the largest in the table
NextRowId(T) == IF T = {} THEN 1 ELSE MaxOf({r.id : r \in T}) + 1

\* db.get: the first row of the result set, or undefined
GetFirst(S) == IF S = {} THEN NoRow ELSE CHOOSE r \in S : \A q \in S : r.id <= q.id

\* no uniqueness declared
UsersUniqueOkNone(mid) == TRUE

\* users.microsoft_id is declared unique

UsersUniqueOk(mid) == \A u \in users : u.microsoft_id # mid

\* a users table that admits any user_type
UserTypeOkAny(userType) == TRUE

\* users.user_type is one of the four kinds of user
UserTypeOk(userType) == userType \in UserTypes

\* alumni_network.user_id references users(id); foreign keys are enforced
AlumniForeignKeyOk(userId) == \E u \in users : u.id = userId

(***************************************************************************)
(* User.js queries.                                                        *)
(***************************************************************************)
\* a lookup that ignores the key
findAnyUser(mid) == GetFirst(users)

\* SELECT * FROM users WHERE microsoft_id = ?
findByMicrosoftId(mid) == GetFirst({u \in users : u.microsoft_id = mid})

findById(id) == GetFirst({u \in users : u.id = id})

\* the existence check keyed on the profile's own id
getAlumniRowByRowId(userId) == GetFirst({a \in alumni_network : a.id = userId})

\* SELECT * FROM alumni_network WHERE user_id = ?
getAlumniRow(userId) == GetFirst({a \in alumni_network : a.user_id = userId})

\* the profiles stored for a user
AlumniRowsOf(userId) == {a \in alumni_network : a.user_id = userId}

\* SELECT u.*, a.* FROM users u LEFT JOIN alumni_network a ON u.id = a.user_id
\* WHERE u.id = ? AND u.user_type = 'alumni': the first joined row, in which a column
\* of a.* replaces the column of u.* of the same name; without a profile every column
\* of a.* is NULL
getAlumniNetwork(userId) ==
    LET u == GetFirst({x \in users : x.id = userId /\ x.user_type = "alumni"})
        a == getAlumniRow(userId)
    IN  IF u = NoRow THEN NoRow
        ELSE IF a = NoRow
             THEN [microsoft_id |-> u.microsoft_id, user_type |-> u.user_type,
                   graduation_year |-> u.graduation_year, last_login |-> u.last_login,
                   profile |-> NULL]
             ELSE [id |-> a.id, microsoft_id |-> u.microsoft_id, user_type |-> u.user_type,
                   graduation_year |-> u.graduation_year, last_login |-> u.last_login,
                   user_id |-> a.user_id, current_employer |-> a.current_employer,
                   mentorship_available |-> a.mentorship_available]

(***************************************************************************)
(* Calls.  A caller awaits one call at a time.  A caller that keeps what   *)
(* it awaited (keep, the way a test does) holds the result until it drops  *)
(* it or makes its next call, and then remembers the call before as        *)
(* `prev`; a caller that does not (a request handler) is gone when the     *)
(* call returns.  `pre` is what a test reads from storage before the call. *)
(***************************************************************************)
UNDEF == "undefined"
NoArg == [none |-> TRUE]
NoPrev == [op |-> "none"]
Idle == [op |-> "idle", pc |-> "idle", arg |-> NoArg, loc |-> NoArg,
         pre |-> NoArg, res |-> NoArg, prev |-> NoPrev]

Ok(v) == [ok |-> TRUE, val |-> v]
Threw(msg) == [ok |-> FALSE, error |-> msg]

\* a destructuring or parameter default: `x = d`
Default(v, d) == IF v = UNDEF THEN d ELSE v

CanCall(p) == proc[p].pc \in {"idle", "done"}

NewCall(p, op, pc, arg, pre, prev) ==
    [op |-> op, pc |-> pc, arg |-> arg, loc |-> NoArg, pre |-> pre,
     res |-> NoArg, prev |-> IF proc[p].pc = "done" THEN prev ELSE NoPrev]

Goto(p, pc, loc) == proc' = [proc EXCEPT ![p].pc = pc, ![p].loc = loc]

Finish(p, keep, res) ==
    proc' = [proc EXCEPT ![p] = IF keep THEN [@ EXCEPT !.pc = "done", !.res = res]
                                        ELSE Idle]

Init ==
    /\ users = {}
    /\ alumni_network = {}
    /\ courses = {}
    /\ reviews = {}
    /\ professors = {}
    /\ lastID = 0
    /\ now = 0
    /\ proc = [p \in Procs |-> Idle]

\* the wall clock advances between statements
Tick ==
    /\ now < MaxClock
    /\ now' = now + 1
    /\ UNCHANGED <<courseVars, users, alumni_network, proc>>

\* the caller drops the result of the call it awaited
Return(p) ==
    /\ proc[p].pc = "done"
    /\ proc' = [proc EXCEPT ![p] = Idle]
    /\ UNCHANGED <<courseVars, users, alumni_network, now>>

\* the statement a call awaits is rejected by the storage engine: the promise wrapper
\* rejects, the method's catch rethrows, and nothing of the statement is stored
StorageFault(p, keep) ==
    /\ proc[p].pc \notin {"idle", "done"}
    /\ Finish(p, keep, Threw("SQLITE_ERROR"))
    /\ UNCHANGED <<courseVars, users, alumni_network, now>>

(***************************************************************************)
(* User.findOrCreateFromMicrosoft and User.create.                         *)
(***************************************************************************)
\* what a test reads of the identity `mid` from storage
IdentityFacts(mid) ==
    LET rows == {u \in users : u.microsoft_id = mid}
    IN  [rows |-> Cardinality(rows),
         last_login |-> IF rows = {} THEN 0 - 1 ELSE MaxOf({u.last_login : u \in rows}),
         nusers |-> Cardinality(users)]

\* what a test keeps of a findOrCreateFromMicrosoft call it awaited
IdentitySummary(c) ==
    IF c.op = "findOrCreateFromMicrosoft" /\ c.res.ok
    THEN [op |-> c.op, microsoft_id |-> c.arg.microsoft_id, id |-> c.res.val.id,
          facts |-> IdentityFacts(c.arg.microsoft_id)]
    ELSE NoPrev

Call_findOrCreateFromMicrosoft(p) ==
    /\ CanCall(p)
    /\ \E mid \in MicrosoftIds, ut \in UserTypeInputs \cup {UNDEF} :
          proc' = [proc EXCEPT ![p] =
                     NewCall(p, "findOrCreateFromMicrosoft", "foc_find",
                             [microsoft_id |-> mid, userType |-> ut],
                             NoArg, IdentitySummary(proc[p]))]
    /\ UNCHANGED <<courseVars, users, alumni_network, now>>

\* let user = await this.findByMicrosoftId(profile.id)
foc_find(p) ==
    /\ proc[p].pc = "foc_find"
    /\ LET user == findByMicrosoftId(proc[p].arg.microsoft_id)
       IN  Goto(p, IF user = NoRow THEN "create_insert" ELSE "foc_login", [user |-> user])
    /\ UNCHANGED <<courseVars, users, alumni_network, now>>

\* await this.updateLastLogin(user.id); return user
foc_login(p, keep) ==
    /\ proc[p].pc = "foc_login"
    /\ LET user == proc[p].loc.user
       IN  /\ users' = {IF u.id = user.id THEN [u EXCEPT !.last_login = now] ELSE u : u \in users}
           /\ Finish(p, keep, Ok(user))
    /\ UNCHANGED <<courseVars, alumni_network, now>>

Call_create(p, Types, Years) ==
    /\ CanCall(p)
    /\ \E mid \in MicrosoftIds, ut \in Types, gy \in Years :
          proc' = [proc EXCEPT ![p] =
                     NewCall(p, "create", "create_insert",
                             [microsoft_id |-> mid, user_type |-> ut, graduation_year |-> gy],
                             NoArg, NoPrev)]
    /\ UNCHANGED <<courseVars, users, alumni_network, now>>

\* the userData User.create destructures, with its defaults; findOrCreateFromMicrosoft
\* passes its own userType (default 'current') and no graduation_year
UserData(c) ==
    IF c.op = "findOrCreateFromMicrosoft"
    THEN [microsoft_id |-> c.arg.microsoft_id,
          user_type |-> Default(Default(c.arg.userType, "current"), "current"),
          graduation_year |-> Default(UNDEF, NULL)]
    ELSE [microsoft_id |-> c.arg.microsoft_id,
          user_type |-> Default(c.arg.user_type, "current"),
          graduation_year |-> Default(c.arg.graduation_year, NULL)]

\* const result = await runAsync(INSERT INTO users ...)
create_insert(p, keep) ==
    /\ proc[p].pc = "create_insert"
    /\ LET d == UserData(proc[p])
           row == [id |-> NextRowId(users), microsoft_id |-> d.microsoft_id,
                   user_type |-> d.user_type, graduation_year |-> d.graduation_year,
                   last_login |-> now]
       IN  IF UsersUniqueOk(d.microsoft_id) /\ UserTypeOk(d.user_type)
           THEN /\ Cardinality(users) < MaxUsers
                /\ users' = users \cup {row}
                /\ Goto(p, "create_reread", [result_id |-> row.id])
           ELSE /\ users' = users
                /\ Finish(p, keep, Threw("SQLITE_CONSTRAINT"))
    /\ UNCHANGED <<courseVars, alumni_network, now>>

\* return await this.findById(result.id)
create_reread(p, keep) ==
    /\ proc[p].pc = "create_reread"
    /\ Finish(p, keep, Ok(findById(proc[p].loc.result_id)))
    /\ UNCHANGED <<courseVars, users, alumni_network, now>>

(***************************************************************************)
(* User.updateUserType and User.updateAlumniNetwork.                       *)
(***************************************************************************)
\* an UPDATE that leaves user_type out
SetGraduationYear(userId, userType, graduationYear) ==
    {IF u.id = userId THEN [u EXCEPT !.graduation_year = graduationYear] ELSE u : u \in users}

\* an UPDATE that keeps the stored year when it is given none
SetUserTypeCoalesce(userId, userType, graduationYear) ==
    {IF u.id = userId
     THEN [u EXCEPT !.user_type = userType,
                    !.graduation_year = IF graduationYear = NULL THEN @ ELSE graduationYear]
     ELSE u : u \in users}

\* UPDATE users SET user_type = ?, graduation_year = ? WHERE id = ?
SetUserType(userId, userType, graduationYear) ==
    {IF u.id = userId THEN [u EXCEPT !.user_type = userType,
                                     !.graduation_year = graduationYear] ELSE u : u \in users}

\* what a test reads of the alumni profile of `userId` from storage
AlumniFacts(userId) ==
    [rows |-> Cardinality(AlumniRowsOf(userId)), user |-> findById(userId) # NoRow,
     row |-> findById(userId), profile |-> AlumniRowsOf(userId)]

Call_updateUserType(p, keep, Types, Years) ==
    /\ CanCall(p)
    /\ \E id \in UserIdInputs, ut \in Types, gy \in Years :
          proc' = [proc EXCEPT ![p] =
                     NewCall(p, "updateUserType", "ut_update",
                             [userId |-> id, userType |-> ut, graduationYear |-> gy],
                             IF keep THEN AlumniFacts(id) ELSE NoArg, NoPrev)]
    /\ UNCHANGED <<courseVars, users, alumni_network, now>>

\* await runAsync(sql, [userType, graduationYear, userId]); an absent userType is
\* bound as NULL, and the statement is rejected when a row it changes breaks the table's
\* constraint
ut_update(p, keep) ==
    /\ proc[p].pc = "ut_update"
    /\ LET a == proc[p].arg
           userType == Default(a.userType, NULL)
       IN  IF findById(a.userId) # NoRow /\ ~UserTypeOk(userType)
           THEN /\ users' = users
                /\ Finish(p, keep, Threw("SQLITE_CONSTRAINT"))
           ELSE /\ users' = SetUserType(a.userId, userType, Default(a.graduationYear, NULL))
                /\ Goto(p, "ut_reread", NoArg)
    /\ UNCHANGED <<courseVars, alumni_network, now>>

\* return await this.findById(userId)
ut_reread(p, keep) ==
    /\ proc[p].pc = "ut_reread"
    /\ Finish(p, keep, Ok(findById(proc[p].arg.userId)))
    /\ UNCHANGED <<courseVars, users, alumni_network, now>>

\* what a test keeps of an updateAlumniNetwork call it awaited
AlumniSummary(c) ==
    IF c.op = "updateAlumniNetwork"
    THEN [op |-> c.op, userId |-> c.arg.userId,
          current_employer |-> c.arg.current_employer, ok |-> c.res.ok,
          inserted |-> IF "existing" \in DOMAIN c.loc THEN c.loc.existing = NoRow ELSE FALSE,
          pre |-> [rows |-> c.pre.rows]]
    ELSE NoPrev

Call_updateAlumniNetwork(p, keep, Years, Mentors) ==
    /\ CanCall(p)
    /\ \E id \in UserIdInputs, gy \in Years, e \in Employers, m \in Mentors :
          proc' = [proc EXCEPT ![p] =
                     NewCall(p, "updateAlumniNetwork", "an_type_update",
                             [userId |-> id, graduation_year |-> gy,
                              current_employer |-> e, mentorship_available |-> m],
                             IF keep THEN AlumniFacts(id) ELSE NoArg,
                             AlumniSummary(proc[p]))]
    /\ UNCHANGED <<courseVars, users, alumni_network, now>>

\* await this.updateUserType(userId, 'alumni', alumniData.graduation_year): the UPDATE
an_type_update(p) ==
    /\ proc[p].pc = "an_type_update"
    /\ LET a == proc[p].arg
       IN  users' = SetUserType(a.userId, "alumni", Default(a.graduation_year, NULL))
    /\ Goto(p, "an_type_reread", NoArg)
    /\ UNCHANGED <<courseVars, alumni_network, now>>

\* ... and its findById, whose result updateAlumniNetwork drops
an_type_reread(p) ==
    /\ proc[p].pc = "an_type_reread"
    /\ Goto(p, "an_exist", NoArg)
    /\ UNCHANGED <<courseVars, users, alumni_network, now>>

\* const existing = await getAsync('SELECT * FROM alumni_network WHERE user_id = ?')
an_exist(p) ==
    /\ proc[p].pc = "an_exist"
    /\ Goto(p, "an_write", [existing |-> getAlumniRow(proc[p].arg.userId)])
    /\ UNCHANGED <<courseVars, users, alumni_network, now>>

\* a JavaScript boolean bound to a statement is stored as 0 or 1
SqlBool(b) == IF b = "true" THEN 1 ELSE 0

\* if (existing) UPDATE alumni_network ... WHERE user_id = ?  else INSERT INTO alumni_network
an_write(p, keep) ==
    /\ proc[p].pc = "an_write"
    /\ LET a == proc[p].arg
           mentor == SqlBool(Default(a.mentorship_available, "false"))
           row == [id |-> NextRowId(alumni_network), user_id |-> a.userId,
                   current_employer |-> a.current_employer,
                   mentorship_available |-> mentor]
       IN  IF proc[p].loc.existing # NoRow
           THEN /\ alumni_network' =
                      {IF r.user_id = a.userId THEN [r EXCEPT !.current_employer = a.current_employer,
                                                       !.mentorship_available = mentor] ELSE r : r \in alumni_network}
                /\ Goto(p, "an_reread", proc[p].loc)
           ELSE IF AlumniForeignKeyOk(a.userId)
                THEN /\ Cardinality(alumni_network) < MaxAlumniRows
                     /\ alumni_network' = alumni_network \cup {row}
                     /\ Goto(p, "an_reread", proc[p].loc)
                ELSE /\ alumni_network' = alumni_network
                     /\ Finish(p, keep, Threw("SQLITE_CONSTRAINT"))
    /\ UNCHANGED <<courseVars, users, now>>

\* return await getAsync('SELECT * FROM alumni_network WHERE user_id = ?')
an_reread(p, keep) ==
    /\ proc[p].pc = "an_reread"
    /\ Finish(p, keep, Ok(getAlumniRow(proc[p].arg.userId)))
    /\ UNCHANGED <<courseVars, users, alumni_network, now>>

\* the alumni upsert over users created with defaults; the calls differ in the
\* user and the employer
AlumniStep(p, keep) ==
    \/ Call_create(p, {UNDEF}, {UNDEF})
    \/ create_insert(p, keep)
    \/ create_reread(p, keep)
    \/ Call_updateAlumniNetwork(p, keep, {UNDEF}, {UNDEF})
    \/ an_type_update(p)
    \/ an_type_reread(p)
    \/ an_exist(p)
    \/ an_write(p, keep)
    \/ an_reread(p, keep)

\* concurrent request handlers
AlumniNext == \E p \in Procs : AlumniStep(p, FALSE)

AlumniSpec == Init /\ [][AlumniNext]_vars

\* one caller, one call after the other
AlumniSeqNext == AlumniStep(1, TRUE) \/ Return(1)

AlumniSeqSpec == Init /\ [][AlumniSeqNext]_vars

IdentityStep(p, keep) ==
    \/ Call_findOrCreateFromMicrosoft(p)
    \/ foc_find(p)
    \/ foc_login(p, keep)
    \/ create_insert(p, keep)
    \/ create_reread(p, keep)

\* concurrent request handlers
IdentityNext == Tick \/ \E p \in Procs : IdentityStep(p, FALSE)

IdentitySpec == Init /\ [][IdentityNext]_vars

\* one caller, one call after the other
IdentitySeqNext == Tick \/ IdentityStep(1, TRUE) \/ Return(1)

IdentitySeqSpec == Init /\ [][IdentitySeqNext]_vars

\* the alumni upsert over users of every type, with mentorship_available given or
\* omitted, one call after the other
ProfileSeqNext ==
    \/ Call_create(1, UserTypeInputs \cup {UNDEF}, {UNDEF})
    \/ create_insert(1, TRUE)
    \/ create_reread(1, TRUE)
    \/ Call_updateAlumniNetwork(1, TRUE, {UNDEF}, MentorInputs \cup {"false", UNDEF})
    \/ an_type_update(1)
    \/ an_type_reread(1)
    \/ an_exist(1)
    \/ an_write(1, TRUE)
    \/ an_reread(1, TRUE)
    \/ Return(1)

ProfileSeqSpec == Init /\ [][ProfileSeqNext]_vars

\* every operation on users and alumni profiles, with every user type and year, one
\* call after the other, by a caller that keeps no result
UserSeqNext ==
    \/ IdentityStep(1, FALSE)
    \/ Call_create(1, UserTypeInputs \cup {UNDEF}, YearInputs \cup {UNDEF})
    \/ Call_updateUserType(1, FALSE, UpdateTypeInputs \cup UserTypeInputs, YearInputs \cup {UNDEF})
    \/ ut_update(1, FALSE)
    \/ ut_reread(1, FALSE)
    \/ Call_updateAlumniNetwork(1, FALSE, YearInputs \cup {UNDEF}, MentorInputs \cup {UNDEF})
    \/ an_type_update(1)
    \/ an_type_reread(1)
    \/ an_exist(1)
    \/ an_write(1, FALSE)
    \/ an_reread(1, FALSE)

UserSeqSpec == Init /\ [][UserSeqNext]_vars

\* profile updates with and without a graduation year, on users created with and
\* without one, one call after the other while the clock advances; each update
\* carries what storage held when it was called
GraduationSeqNext ==
    \/ Tick
    \/ Call_create(1, UserTypeInputs \cup {UNDEF}, YearInputs \cup {UNDEF})
    \/ create_insert(1, FALSE)
    \/ create_reread(1, FALSE)
    \/ Call_updateAlumniNetwork(1, TRUE, GraduationYears \cup {UNDEF}, {UNDEF})
    \/ an_type_update(1)
    \/ an_type_reread(1)
    \/ an_exist(1)
    \/ an_write(1, FALSE)
    \/ an_reread(1, FALSE)

GraduationSeqSpec == Init /\ [][GraduationSeqNext]_vars

(***************************************************************************)
(* User.getUserStats.                                                      *)
(***************************************************************************)
\* SUM(CASE WHEN user_type = ? THEN 1 ELSE 0 END): NULL over no rows
SumCase(userType) ==
    IF users = {} THEN [null |-> TRUE]
    ELSE [null |-> FALSE, val |-> Cardinality({u \in users : u.user_type = userType})]

\* stats.x_count || 0
OrZero(s) == IF s.null THEN 0 ELSE IF s.val = 0 THEN 0 ELSE s.val

\* the record getUserStats returns
getUserStats ==
    [total |-> Cardinality(users),
     by_type |-> [current |-> [count |-> OrZero(SumCase("current"))],
                  alumni |-> [count |-> OrZero(SumCase("alumni"))],
                  faculty |-> [count |-> OrZero(SumCase("faculty"))],
                  staff |-> [count |-> OrZero(SumCase("staff"))]]]

Call_getUserStats(p) ==
    /\ CanCall(p)
    /\ proc' = [proc EXCEPT ![p] = NewCall(p, "getUserStats", "gs_get", NoArg, NoArg, NoPrev)]
    /\ UNCHANGED <<courseVars, users, alumni_network, now>>

\* const stats = await getAsync(SELECT COUNT(*) ..., SUM(CASE ...) ... FROM users); return {...}
gs_get(p, keep) ==
    /\ proc[p].pc = "gs_get"
    /\ Finish(p, keep, Ok(getUserStats))
    /\ UNCHANGED <<courseVars, users, alumni_network, now>>

\* every operation that writes users, with user types of every kind, and the
\* statistics read, one call after the other; the caller keeps what create,
\* updateUserType and getUserStats return
StatsSeqNext ==
    \/ Call_findOrCreateFromMicrosoft(1)
    \/ foc_find(1)
    \/ foc_login(1, TRUE)
    \/ Call_create(1, UserTypeInputs \cup OtherTypeInputs \cup {UNDEF}, {UNDEF})
    \/ create_insert(1, TRUE)
    \/ create_reread(1, TRUE)
    \/ Call_updateUserType(1, FALSE, UpdateTypeInputs \cup OtherTypeInputs \cup {UNDEF}, {UNDEF})
    \/ ut_update(1, TRUE)
    \/ ut_reread(1, TRUE)
    \/ Call_updateAlumniNetwork(1, FALSE, {UNDEF}, {UNDEF})
    \/ an_type_update(1)
    \/ an_type_reread(1)
    \/ an_exist(1)
    \/ an_write(1, FALSE)
    \/ an_reread(1, FALSE)
    \/ Call_getUserStats(1)
    \/ gs_get(1, TRUE)

StatsSeqSpec == Init /\ [][StatsSeqNext]_vars

(***************************************************************************)
(* CourseModel.js: Course.create, Course.update, Course.delete,            *)
(* Course.findByCode, and the routes that insert reviews and professors.   *)
(***************************************************************************)
\* JavaScript's `!x` on an absent or empty string
Falsy(v) == v \in {UNDEF, ""}

\* a validation that forgets the department
RequiredMissingNoDepartment(a) == Falsy(a.course_code) \/ Falsy(a.course_name)

\* if (!course_code || !course_name || !department)
RequiredMissing(a) ==
    Falsy(a.course_code) \/ Falsy(a.course_name) \/ Falsy(a.department)

\* `x || null`
OrNull(v) == IF Falsy(v) THEN NULL ELSE v

\* a binding that stores the absent parameter as it came
BindAsIs(v) == v

\* an absent parameter is bound as NULL
Bind(v) == IF v = UNDEF THEN NULL ELSE v

\* no uniqueness declared on course_code
CourseCodeUniqueOkNone(code, id) == TRUE

\* courses.course_code is declared unique; NULLs never conflict
CourseCodeUniqueOk(code, id) ==
    code = NULL \/ \A c \in courses : c.id = id \/ c.course_code # code

\* no reference declared from reviews to courses
CourseDeleteForeignKeyOkNone(id) == TRUE

\* reviews.course_id references courses(id): a referenced course cannot be deleted
CourseDeleteForeignKeyOk(id) == \A r \in reviews : r.course_id # id

\* ... and a review cannot be stored for a course that does not exist
ReviewForeignKeyOk(courseId) == \E c \in courses : c.id = courseId

\* SELECT * FROM courses WHERE course_code = ?
findByCode(courseCode) == GetFirst({c \in courses : c.course_code = courseCode})

\* SELECT * FROM courses WHERE id = ?
Course_findById(id) == GetFirst({c \in courses : c.id = id})

\* SELECT COUNT(*) as count FROM reviews WHERE course_id = ?
ReviewCount(id) == Cardinality({r \in reviews : r.course_id = id})

\* a guard that lets a single review through
HasReviewsMoreThanOne(count) == count > 1

\* if (reviewCheck.count > 0)
HasReviews(count) == count > 0

Call_Course_create(p, keep, Codes, Names, Depts, Descs) ==
    /\ CanCall(p)
    /\ \E code \in Codes, name \in Names, dept \in Depts, desc \in Descs :
          LET a == [course_code |-> code, course_name |-> name, department |-> dept,
                    description |-> desc]
              c == NewCall(p, "Course.create", "cc_insert", a, NoArg, NoPrev)
          IN  proc' = [proc EXCEPT ![p] =
                         IF RequiredMissing(a)
                         THEN IF keep
                              THEN [c EXCEPT !.pc = "done",
                                             !.res = Threw("Missing required fields")]
                              ELSE Idle
                         ELSE c]
    /\ UNCHANGED <<userVars, courseVars, now>>

\* const result = await dbAsync.run(INSERT INTO courses ...)
cc_insert(p, keep) ==
    /\ proc[p].pc = "cc_insert"
    /\ LET a == proc[p].arg
           row == [id |-> NextRowId(courses), course_code |-> a.course_code,
                   course_name |-> a.course_name, department |-> a.department,
                   description |-> OrNull(a.description), created_at |-> now]
       IN  IF CourseCodeUniqueOk(row.course_code, row.id)
           THEN /\ Cardinality(courses) < MaxCourses
                /\ courses' = courses \cup {row}
                /\ Goto(p, "cc_reread", [result_id |-> row.id])
           ELSE /\ courses' = courses
                /\ Finish(p, keep, Threw("SQLITE_CONSTRAINT"))
    /\ UNCHANGED <<userVars, reviews, professors, lastID, now>>

\* the parameters of the INSERT handed back as they came
EchoedCourse(c) ==
    [id |-> c.loc.result_id, course_code |-> c.arg.course_code,
     course_name |-> c.arg.course_name, department |-> c.arg.department,
     description |-> c.arg.description, created_at |-> now]

\* return await this.findById(result.id)
CreatedCourse(c) == Course_findById(c.loc.result_id)

cc_reread(p, keep) ==
    /\ proc[p].pc = "cc_reread"
    /\ Finish(p, keep, Ok(CreatedCourse(proc[p])))
    /\ UNCHANGED <<userVars, courseVars, now>>

Call_Course_update(p, Codes, Names, Depts, Descs) ==
    /\ CanCall(p)
    /\ \E id \in CourseIdInputs, code \in Codes, name \in Names, dept \in Depts,
          desc \in Descs :
          proc' = [proc EXCEPT ![p] =
                     NewCall(p, "Course.update", "cu_update",
                             [id |-> id, course_code |-> code, course_name |-> name,
                              department |-> dept, description |-> desc],
                             NoArg, NoPrev)]
    /\ UNCHANGED <<userVars, courseVars, now>>

\* await dbAsync.run(UPDATE courses SET ... WHERE id = ?)
cu_update(p, keep) ==
    /\ proc[p].pc = "cu_update"
    /\ LET a == proc[p].arg
       IN  IF Course_findById(a.id) = NoRow \/ CourseCodeUniqueOk(Bind(a.course_code), a.id)
           THEN /\ courses' =
                      {IF c.id = a.id THEN [c EXCEPT !.course_code = Bind(a.course_code),
                                                       !.course_name = Bind(a.course_name),
                                                       !.department = Bind(a.department),
                                                       !.description = Bind(a.description)] ELSE c : c \in courses}
                /\ Goto(p, "cu_reread", NoArg)
           ELSE /\ courses' = courses
                /\ Finish(p, keep, Threw("SQLITE_CONSTRAINT"))
    /\ UNCHANGED <<userVars, reviews, professors, lastID, now>>

\* return await this.findById(id)
cu_reread(p, keep) ==
    /\ proc[p].pc = "cu_reread"
    /\ Finish(p, keep, Ok(Course_findById(proc[p].arg.id)))
    /\ UNCHANGED <<userVars, courseVars, now>>

Call_Course_delete(p, keep) ==
    /\ CanCall(p)
    /\ \E id \in CourseIdInputs :
          proc' = [proc EXCEPT ![p] =
                     NewCall(p, "Course.delete", "cd_count", [id |-> id],
                             IF keep THEN [nrev |-> Cardinality({r \in reviews : r.course_id = id})]
                                     ELSE NoArg,
                             NoPrev)]
    /\ UNCHANGED <<userVars, courseVars, now>>

\* const reviewCheck = await dbAsync.get(SELECT COUNT(*) ...); if (reviewCheck.count > 0) throw
cd_count(p, keep) ==
    /\ proc[p].pc = "cd_count"
    /\ IF HasReviews(ReviewCount(proc[p].arg.id))
       THEN Finish(p, keep, Threw("Cannot delete course with existing reviews"))
       ELSE Goto(p, "cd_delete", NoArg)
    /\ UNCHANGED <<userVars, courseVars, now>>

\* const result = await dbAsync.run('DELETE FROM courses WHERE id = ?'); return result.changes > 0
cd_delete(p, keep) ==
    /\ proc[p].pc = "cd_delete"
    /\ LET id == proc[p].arg.id
           gone == {c \in courses : c.id = id}
       IN  IF CourseDeleteForeignKeyOk(id)
           THEN /\ courses' = courses \ gone
                /\ Finish(p, keep, Ok([deleted |-> Cardinality(gone) > 0]))
           ELSE /\ courses' = courses
                /\ Finish(p, keep, Threw("SQLITE_CONSTRAINT"))
    /\ UNCHANGED <<userVars, reviews, professors, lastID, now>>

\* router.post('/:id/reviews'): if (!req.user) return 401, else the INSERT is queued
Call_postReview(p, keep, Ratings) ==
    /\ CanCall(p)
    /\ \E user \in BOOLEAN, id \in CourseIdInputs, rating \in Ratings :
          LET c == NewCall(p, "POST /:id/reviews", "rv_insert",
                           [id |-> id, rating |-> rating], NoArg, NoPrev)
          IN  proc' = [proc EXCEPT ![p] =
                         IF ~user
                         THEN IF keep THEN [c EXCEPT !.pc = "done",
                                                     !.res = Threw("Not authenticated")]
                                      ELSE Idle
                         ELSE c]
    /\ UNCHANGED <<userVars, courseVars, now>>

\* db.run(INSERT INTO reviews ...), then res.json({ id: this.lastID })
rv_insert(p, keep) ==
    /\ proc[p].pc = "rv_insert"
    /\ LET row == [id |-> NextRowId(reviews), course_id |-> proc[p].arg.id,
                   rating |-> proc[p].arg.rating]
       IN  IF ReviewForeignKeyOk(row.course_id)
           THEN /\ Cardinality(reviews) < MaxReviews
                /\ reviews' = reviews \cup {row}
                /\ lastID' = row.id
                /\ Finish(p, keep, Ok([id |-> row.id]))
           ELSE /\ UNCHANGED <<reviews, lastID>>
                /\ Finish(p, keep, Threw("SQLITE_CONSTRAINT"))
    /\ UNCHANGED <<userVars, courses, professors, now>>

(***************************************************************************)
(* Course.findAll and Course.search.                                       *)
(***************************************************************************)
\* the characters of a text value
Chars(t) ==
    CASE t = "" -> <<>>
      [] t = " " -> <<" ">>
      [] t = "s" -> <<"s">>
      [] t = "S1" -> <<"S", "1">>
      [] t = " a" -> <<" ", "a">>
      [] t = "_" -> <<"_">>
      [] t = "%" -> <<"%">>
      [] t = "CS 1" -> <<"C", "S", " ", "1">>
      [] t = "M2" -> <<"M", "2">>
      [] t = "Ab" -> <<"A", "b">>
      [] t = "s1" -> <<"s", "1">>
      [] t = "COMP" -> <<"C", "O", "M", "P">>
      [] t = "MATH" -> <<"M", "A", "T", "H">>
      [] t = "all" -> <<"a", "l", "l">>
      [] t = "COMP 3030" -> <<"C", "O", "M", "P", " ", "3", "0", "3", "0">>
      [] t = "MATH 1010" -> <<"M", "A", "T", "H", " ", "1", "0", "1", "0">>
      [] t = "Algorithms" -> <<"A", "l", "g", "o", "r", "i", "t", "h", "m", "s">>
      [] t = "Sorting and graphs" -> <<"S", "o", "r", "t", "i", "n", "g", " ", "a", "n", "d", " ", "g", "r", "a", "p", "h", "s">>

\* the byte of a character, which is what ORDER BY compares
Byte(ch) ==
    CASE ch = " " -> 32 [] ch = "%" -> 37 [] ch = "0" -> 48 [] ch = "1" -> 49
      [] ch = "2" -> 50 [] ch = "3" -> 51 [] ch = "A" -> 65 [] ch = "C" -> 67
      [] ch = "H" -> 72 [] ch = "M" -> 77 [] ch = "O" -> 79 [] ch = "P" -> 80
      [] ch = "S" -> 83 [] ch = "T" -> 84 [] ch = "_" -> 95 [] ch = "a" -> 97
      [] ch = "b" -> 98 [] ch = "d" -> 100 [] ch = "g" -> 103 [] ch = "h" -> 104
      [] ch = "i" -> 105 [] ch = "l" -> 108 [] ch = "m" -> 109 [] ch = "n" -> 110
      [] ch = "o" -> 111 [] ch = "p" -> 112 [] ch = "r" -> 114 [] ch = "s" -> 115
      [] ch = "t" -> 116

\* LIKE folds the case of ASCII letters
Fold(ch) == IF Byte(ch) >= 65 /\ Byte(ch) <= 90 THEN Byte(ch) + 32 ELSE Byte(ch)

RECURSIVE LikeChars(_, _)
\* text LIKE pattern, no ESCAPE: % matches any run of characters, _ any one character,
\* any other character itself without regard to case
LikeChars(pat, txt) ==
    IF pat = <<>> THEN txt = <<>>
    ELSE IF Head(pat) = "%"
         THEN LikeChars(Tail(pat), txt) \/ (txt # <<>> /\ LikeChars(pat, Tail(txt)))
         ELSE /\ txt # <<>>
              /\ Head(pat) = "_" \/ Fold(Head(pat)) = Fold(Head(txt))
              /\ LikeChars(Tail(pat), Tail(txt))

\* column LIKE ?, which is not true of a NULL column
Like(value, pat) == value # NULL /\ LikeChars(pat, Chars(value))

\* `%${term}%`
Wrapped(term) == <<"%">> \o term \o <<"%">>

RECURSIVE TrimLeft(_)
TrimLeft(cs) == IF cs # <<>> /\ Head(cs) = " " THEN TrimLeft(Tail(cs)) ELSE cs

RECURSIVE TrimRight(_)
TrimRight(cs) ==
    IF cs # <<>> /\ cs[Len(cs)] = " " THEN TrimRight(SubSeq(cs, 1, Len(cs) - 1)) ELSE cs

\* String.prototype.trim
Trim(cs) == TrimRight(TrimLeft(cs))

RECURSIVE BytesLess(_, _)
\* the order of two texts, byte by byte
BytesLess(x, y) ==
    IF y = <<>> THEN FALSE
    ELSE IF x = <<>> THEN TRUE
    ELSE IF Byte(Head(x)) # Byte(Head(y)) THEN Byte(Head(x)) < Byte(Head(y))
    ELSE BytesLess(Tail(x), Tail(y))

\* ORDER BY course_code: NULLs first; rows of equal code in the order of the scan
CodeBefore(a, b) ==
    IF a.course_code = b.course_code THEN a.id < b.id
    ELSE IF a.course_code = NULL THEN TRUE
    ELSE IF b.course_code = NULL THEN FALSE
    ELSE BytesLess(Chars(a.course_code), Chars(b.course_code))

RECURSIVE OrderByCode(_)
OrderByCode(S) ==
    IF S = {} THEN <<>>
    ELSE LET first == CHOOSE r \in S : \A q \in S \ {r} : CodeBefore(r, q)
         IN  <<first>> \o OrderByCode(S \ {first})

\* WHERE course_code LIKE ? OR course_name LIKE ? OR description LIKE ?
MatchesTerm(c, pat) ==
    Like(c.course_code, pat) \/ Like(c.course_name, pat) \/ Like(c.description, pat)

\* a department filter that takes 'all' for the name of a department
DepartmentFilterLiteral(department) == ~Falsy(department)

\* if (filters.department && filters.department !== 'all')
DepartmentFilter(department) == ~Falsy(department) /\ department # "all"

\* if (filters.search && filters.search.trim() !== '')
SearchFilter(search) == ~Falsy(search) /\ Trim(Chars(search)) # <<>>

\* the rows Course.findAll selects, in order
Course_findAll(filters) ==
    OrderByCode({c \in courses :
                   /\ DepartmentFilter(filters.department) => c.department = filters.department
                   /\ SearchFilter(filters.search) =>
                        MatchesTerm(c, Wrapped(Trim(Chars(filters.search))))})

\* the rows Course.search selects, in order
Course_search(keyword) ==
    OrderByCode({c \in courses : MatchesTerm(c, Wrapped(Chars(keyword)))})

Call_Course_findAll(p, Depts, Terms) ==
    /\ CanCall(p)
    /\ \E dept \in Depts, term \in Terms :
          proc' = [proc EXCEPT ![p] =
                     NewCall(p, "Course.findAll", "fa_all",
                             [department |-> dept, search |-> term], NoArg, NoPrev)]
    /\ UNCHANGED <<userVars, courseVars, now>>

\* const courses = await dbAsync.all(sql, params); return courses
fa_all(p, keep) ==
    /\ proc[p].pc = "fa_all"
    /\ Finish(p, keep, Ok(Course_findAll(proc[p].arg)))
    /\ UNCHANGED <<userVars, courseVars, now>>

Call_Course_search(p, Terms) ==
    /\ CanCall(p)
    /\ \E term \in Terms :
          proc' = [proc EXCEPT ![p] =
                     NewCall(p, "Course.search", "sr_all", [keyword |-> term],
                             NoArg, NoPrev)]
    /\ UNCHANGED <<userVars, courseVars, now>>

\* const courses = await dbAsync.all(sql, [searchTerm, searchTerm, searchTerm])
sr_all(p, keep) ==
    /\ proc[p].pc = "sr_all"
    /\ Finish(p, keep, Ok(Course_search(proc[p].arg.keyword)))
    /\ UNCHANGED <<userVars, courseVars, now>>

(***************************************************************************)
(* Course.getCourseWithReviews.                                            *)
(***************************************************************************)
\* the reviews of a course; the LEFT JOIN on the professor's primary key adds a
\* name to each row and neither adds nor removes rows
ReviewsOf(courseId) == {r \in reviews : r.course_id = courseId}

RECURSIVE SumRatings(_)
\* reviews.reduce((acc, review) => acc + review.rating, 0)
SumRatings(S) ==
    IF S = {} THEN 0
    ELSE LET r == CHOOSE x \in S : TRUE IN r.rating + SumRatings(S \ {r})

Abs(x) == IF x < 0 THEN 0 - x ELSE x

\* parseFloat((sum / n).toFixed(1)), in tenths: toFixed picks the nearest tenth of the
\* quotient and of two equally near ones the larger in magnitude.  The quotient
\* of two integers lies exactly between two tenths only as a multiple of 1/20, and
\* for n < 20 such a quotient is a multiple of 1/4, which the division yields exactly.
ToFixed1(sum, n) ==
    LET k == (20 * Abs(sum) + n) \div (2 * n)
    IN  IF sum < 0 THEN 0 - k ELSE k

NoAverage == [absent |-> TRUE]

\* let avgRating = null; if (reviews.length > 0) avgRating = sum / reviews.length;
\* average_rating: avgRating ? parseFloat(avgRating.toFixed(1)) : null
AverageRating(S) ==
    LET n == Cardinality(S)
        sum == SumRatings(S)
    IN  IF n > 0 /\ sum # 0 THEN [tenths |-> ToFixed1(sum, n)] ELSE NoAverage

Call_getCourseWithReviews(p) ==
    /\ CanCall(p)
    /\ \E id \in CourseIdInputs :
          proc' = [proc EXCEPT ![p] =
                     NewCall(p, "Course.getCourseWithReviews", "gr_find", [id |-> id],
                             NoArg, NoPrev)]
    /\ UNCHANGED <<userVars, courseVars, now>>

\* const course = await this.findById(courseId); if (!course) return null
gr_find(p, keep) ==
    /\ proc[p].pc = "gr_find"
    /\ LET course == Course_findById(proc[p].arg.id)
       IN  IF course = NoRow
           THEN Finish(p, keep, Ok(NoRow))
           ELSE Goto(p, "gr_reviews", [course |-> course])
    /\ UNCHANGED <<userVars, courseVars, now>>

\* const reviews = await dbAsync.all(SELECT r.*, p.name ... WHERE r.course_id = ?);
\* return { ...course, reviews, review_count, average_rating }
gr_reviews(p, keep) ==
    /\ proc[p].pc = "gr_reviews"
    /\ LET rows == ReviewsOf(proc[p].arg.id)
       IN  Finish(p, keep, Ok([id |-> proc[p].loc.course.id,
                               course |-> proc[p].loc.course,
                               reviews |-> rows,
                               review_count |-> Cardinality(rows),
                               average_rating |-> AverageRating(rows)]))
    /\ UNCHANGED <<userVars, courseVars, now>>

\* no uniqueness declared on (name, department)
ProfessorUniqueOkNone(name, department) == TRUE

\* professors (name, department) is declared unique, which is what OR IGNORE ignores
ProfessorUniqueOk(name, department) ==
    \A r \in professors : ~(r.name = name /\ r.department = department)

\* department || 'Unknown'
OrUnknown(v) == IF Falsy(v) THEN "Unknown" ELSE v

\* router.post('/'): 401 without req.user, 400 without a name, else the INSERT is queued
Call_postProfessor(p, keep, Names, Depts) ==
    /\ CanCall(p)
    /\ \E user \in BOOLEAN, name \in Names, dept \in Depts :
          LET c == NewCall(p, "POST /professors", "pf_insert",
                           [name |-> name, department |-> dept],
                           IF keep
                           THEN [exists |-> \E r \in professors :
                                              r.name = name /\ r.department = OrUnknown(dept)]
                           ELSE NoArg,
                           NoPrev)
              early == IF ~user THEN "Not authenticated"
                       ELSE IF Falsy(name) THEN "Name is required" ELSE "none"
          IN  proc' = [proc EXCEPT ![p] =
                         IF early # "none"
                         THEN IF keep THEN [c EXCEPT !.pc = "done", !.res = Threw(early)]
                                      ELSE Idle
                         ELSE c]
    /\ UNCHANGED <<userVars, courseVars, now>>

\* db.run(INSERT OR IGNORE INTO professors ...), then res.json({ id: this.lastID })
pf_insert(p, keep) ==
    /\ proc[p].pc = "pf_insert"
    /\ LET row == [id |-> NextRowId(professors), name |-> proc[p].arg.name,
                   department |-> OrUnknown(proc[p].arg.department)]
       IN  IF ProfessorUniqueOk(row.name, row.department)
           THEN /\ Cardinality(professors) < MaxProfessors
                /\ professors' = professors \cup {row}
                /\ lastID' = row.id
           ELSE UNCHANGED <<professors, lastID>>
    /\ Finish(p, keep, Ok([id |-> lastID']))
    /\ UNCHANGED <<userVars, courses, reviews, now>>

(***************************************************************************)
(* The specifications of the course side.                                  *)
(***************************************************************************)
\* Course.create with every shape of input, Course.delete and the review route,
\* one call after the other
CourseSeqNext ==
    \/ Call_Course_create(1, TRUE, CourseCodes \cup {UNDEF, ""}, CourseNames \cup {UNDEF, ""},
                          Departments \cup {UNDEF, ""}, Descriptions \cup {UNDEF, ""})
    \/ cc_insert(1, TRUE)
    \/ cc_reread(1, TRUE)
    \/ Call_Course_delete(1, TRUE)
    \/ cd_count(1, TRUE)
    \/ cd_delete(1, TRUE)
    \/ Call_postReview(1, TRUE, {5})
    \/ rv_insert(1, TRUE)
    \/ Return(1)

CourseSeqSpec == Init /\ [][CourseSeqNext]_vars

\* Course.create and Course.update over the course codes, one call after the other
CourseUpdateSeqNext ==
    \/ Call_Course_create(1, TRUE, CourseCodes, CourseNames, Departments, {UNDEF})
    \/ cc_insert(1, TRUE)
    \/ cc_reread(1, TRUE)
    \/ Call_Course_update(1, CourseCodes \cup {UNDEF, ""}, CourseNames, Departments, {UNDEF})
    \/ cu_update(1, TRUE)
    \/ cu_reread(1, TRUE)
    \/ Return(1)

CourseUpdateSeqSpec == Init /\ [][CourseUpdateSeqNext]_vars

\* Course.create with every field given and Course.update with the code and the name
\* given or omitted and the description omitted, one call after the other while the
\* clock advances
CourseFrameSeqNext ==
    \/ Tick
    \/ Call_Course_create(1, TRUE, CourseCodes, CourseNames, Departments, Descriptions)
    \/ cc_insert(1, TRUE)
    \/ cc_reread(1, TRUE)
    \/ Call_Course_update(1, CourseCodes \cup {UNDEF}, CourseNames \cup {UNDEF},
                          Departments, {UNDEF})
    \/ cu_update(1, TRUE)
    \/ cu_reread(1, TRUE)
    \/ Return(1)

CourseFrameSeqSpec == Init /\ [][CourseFrameSeqNext]_vars

\* a catalogue of courses with short texts in two departments, listed and searched,
\* one call after the other
CatalogSeqNext ==
    \/ Call_Course_create(1, TRUE, ShortCodes, ShortNames, FilterDepartments,
                          ShortDescriptions \cup {UNDEF})
    \/ cc_insert(1, TRUE)
    \/ cc_reread(1, TRUE)
    \/ Call_Course_findAll(1, FilterDepartments \cup {UNDEF, "all"}, Keywords \cup {UNDEF})
    \/ fa_all(1, TRUE)
    \/ Call_Course_search(1, Keywords)
    \/ sr_all(1, TRUE)
    \/ Return(1)

CatalogSeqSpec == Init /\ [][CatalogSeqNext]_vars

\* concurrent request handlers creating and deleting courses and posting reviews
CourseStep(p) ==
    \/ Call_Course_create(p, FALSE, CourseCodes, CourseNames, Departments, {UNDEF})
    \/ cc_insert(p, FALSE)
    \/ cc_reread(p, FALSE)
    \/ Call_Course_delete(p, FALSE)
    \/ cd_count(p, FALSE)
    \/ cd_delete(p, FALSE)
    \/ Call_postReview(p, FALSE, {5})
    \/ rv_insert(p, FALSE)

CourseNext == \E p \in Procs : CourseStep(p)

CourseSpec == Init /\ [][CourseNext]_vars

\* the routes that share one connection, with the courses their reviews need,
\* one call after the other
RouteSeqNext ==
    \/ Call_Course_create(1, TRUE, CourseCodes, CourseNames, Departments, {UNDEF})
    \/ cc_insert(1, TRUE)
    \/ cc_reread(1, TRUE)
    \/ Call_postReview(1, TRUE, {5})
    \/ rv_insert(1, TRUE)
    \/ Call_postProfessor(1, TRUE, ProfessorNames \cup {UNDEF}, Departments \cup {UNDEF})
    \/ pf_insert(1, TRUE)
    \/ Return(1)

RouteSeqSpec == Init /\ [][RouteSeqNext]_vars

\* courses, reviews with the ratings the requests carry, and the aggregate read,
\* one call after the other
ReviewSeqNext ==
    \/ Call_Course_create(1, TRUE, CourseCodes, CourseNames, Departments, {UNDEF})
    \/ cc_insert(1, TRUE)
    \/ cc_reread(1, TRUE)
    \/ Call_postReview(1, TRUE, RatingInputs)
    \/ rv_insert(1, TRUE)
    \/ Call_getCourseWithReviews(1)
    \/ gr_find(1, TRUE)
    \/ gr_reviews(1, TRUE)
    \/ Return(1)

ReviewSeqSpec == Init /\ [][ReviewSeqNext]_vars

\* the multi-step operations with storage faults, one call after the other
FaultSeqNext ==
    \/ IdentityStep(1, TRUE)
    \/ Call_create(1, {UNDEF}, {UNDEF})
    \/ Call_updateUserType(1, TRUE, UpdateTypeInputs, {UNDEF})
    \/ ut_update(1, TRUE)
    \/ ut_reread(1, TRUE)
    \/ Call_updateAlumniNetwork(1, TRUE, {UNDEF}, {UNDEF})
    \/ an_type_update(1)
    \/ an_type_reread(1)
    \/ an_exist(1)
    \/ an_write(1, TRUE)
    \/ an_reread(1, TRUE)
    \/ Call_Course_create(1, TRUE, CourseCodes, CourseNames, Departments, {UNDEF})
    \/ cc_insert(1, TRUE)
    \/ cc_reread(1, TRUE)
    \/ StorageFault(1, TRUE)
    \/ Return(1)

FaultSeqSpec == Init /\ [][FaultSeqNext]_vars

(***************************************************************************)
(* The whole program: every operation, by concurrent request handlers.     *)
(***************************************************************************)
Next ==
    \/ Tick
    \/ \E p \in Procs :
          \/ IdentityStep(p, FALSE)
          \/ Call_create(p, UserTypeInputs \cup {UNDEF}, YearInputs \cup {UNDEF})
          \/ Call_updateUserType(p, FALSE, UpdateTypeInputs, YearInputs \cup {UNDEF})
          \/ ut_update(p, FALSE)
          \/ ut_reread(p, FALSE)
          \/ Call_updateAlumniNetwork(p, FALSE, YearInputs \cup {UNDEF}, MentorInputs \cup {UNDEF})
          \/ an_type_update(p)
          \/ an_type_reread(p)
          \/ an_exist(p)
          \/ an_write(p, FALSE)
          \/ an_reread(p, FALSE)
          \/ CourseStep(p)
          \/ Call_Course_update(p, CourseCodes \cup {UNDEF, ""}, CourseNames \cup {UNDEF},
                                Departments \cup {UNDEF}, Descriptions \cup {UNDEF, ""})
          \/ cu_update(p, FALSE)
          \/ cu_reread(p, FALSE)
          \/ Call_postProfessor(p, FALSE, ProfessorNames \cup {UNDEF}, Departments \cup {UNDEF})
          \/ pf_insert(p, FALSE)
          \/ Call_Course_findAll(p, Departments \cup {UNDEF, "all"}, Keywords \cup {UNDEF})
          \/ fa_all(p, FALSE)
          \/ Call_Course_search(p, Keywords)
          \/ sr_all(p, FALSE)
          \/ Call_getCourseWithReviews(p)
          \/ gr_find(p, FALSE)
          \/ gr_reviews(p, FALSE)
          \/ Call_getUserStats(p)
          \/ gs_get(p, FALSE)
          \/ StorageFault(p, FALSE)

Spec == Init /\ [][Next]_vars

(***************************************************************************)
(* The claims.                                                             *)
(***************************************************************************)
Quiescent == \A p \in Procs : proc[p].pc = "idle"

\* C1: once every concurrent updateAlumniNetwork call for a user has returned, the
\* user's profile, where one was written, is exactly one alumni_network row.
C1_OneRowSurvives ==
    Quiescent => \A u \in UserIdInputs :
                    AlumniRowsOf(u) # {} => Cardinality(AlumniRowsOf(u)) = 1

\* C2: after a successful updateAlumniNetwork call of a caller that makes its calls one
\* after the other, the user has exactly one profile row and it holds that call's
\* current_employer; a call that found no profile took the insert branch, and the
\* call that follows a successful call for the same user takes the update branch.
C2_SequentialUpsert ==
    \A p \in Procs :
        LET c == proc[p]
        IN  (c.pc = "done" /\ c.op = "updateAlumniNetwork" /\ c.res.ok) =>
              /\ Cardinality(AlumniRowsOf(c.arg.userId)) = 1
              /\ \A r \in AlumniRowsOf(c.arg.userId) :
                     r.current_employer = c.arg.current_employer
              /\ c.res.val \in AlumniRowsOf(c.arg.userId)
              /\ (c.pre.rows = 0 => c.loc.existing = NoRow)
              /\ (c.prev.op = "updateAlumniNetwork" /\ c.prev.ok
                    /\ c.prev.userId = c.arg.userId)
                  => (c.loc.existing # NoRow /\ (c.prev.pre.rows = 0 => c.prev.inserted))

\* two calls with different employers for a user without a profile have returned
C2_Witness ==
    \E p \in Procs :
        LET c == proc[p]
        IN  /\ c.pc = "done" /\ c.op = "updateAlumniNetwork" /\ c.res.ok
            /\ c.prev.op = "updateAlumniNetwork" /\ c.prev.ok
            /\ c.prev.userId = c.arg.userId
            /\ c.prev.current_employer # c.arg.current_employer
            /\ c.prev.pre.rows = 0 /\ c.prev.inserted
            /\ c.loc.existing # NoRow

\* C3: under every interleaving of findOrCreateFromMicrosoft calls there is at most one
\* users row per microsoft_id.
C3_OneUserPerMicrosoftId ==
    \A m \in MicrosoftIds : Cardinality({u \in users : u.microsoft_id = m}) <= 1

\* a call that found no user is about to insert although another call has inserted
\* the same microsoft_id meanwhile
C3_Witness ==
    \E p \in Procs :
        /\ proc[p].pc = "create_insert"
        /\ \E u \in users : u.microsoft_id = proc[p].arg.microsoft_id

\* C4: the second of two sequential findOrCreateFromMicrosoft calls with the same
\* external id returns the id the first returned, the identity has one users row and
\* the second call added none, and the stored last_login is not before the one stored
\* after the first call.
C4_RepeatedSignIn ==
    \A p \in Procs :
        LET c == proc[p]
        IN  (/\ c.pc = "done" /\ c.op = "findOrCreateFromMicrosoft" /\ c.res.ok
             /\ c.prev.op = "findOrCreateFromMicrosoft"
             /\ c.prev.microsoft_id = c.arg.microsoft_id) =>
              LET f == IdentityFacts(c.arg.microsoft_id)
              IN  /\ c.res.val.id = c.prev.id
                  /\ f.rows = 1
                  /\ f.nusers = c.prev.facts.nusers
                  /\ f.last_login >= c.prev.facts.last_login

\* the second call has returned after the clock moved on
C4_Witness ==
    \E p \in Procs :
        LET c == proc[p]
        IN  /\ c.pc = "done" /\ c.op = "findOrCreateFromMicrosoft" /\ c.res.ok
            /\ c.prev.op = "findOrCreateFromMicrosoft"
            /\ c.prev.microsoft_id = c.arg.microsoft_id
            /\ c.res.val.id = c.prev.id
            /\ IdentityFacts(c.arg.microsoft_id).last_login > c.prev.facts.last_login

ConflictMessage == "Cannot delete course with existing reviews"

\* C5: a Course.delete called while a review references the course writes nothing to
\* courses and ends by throwing the conflict error.
C5_DeleteBlockedByReviews ==
    [][\A p \in Procs :
          (/\ proc[p].op = "Course.delete" /\ proc[p].pc # "done"
           /\ proc[p].pre.nrev > 0 /\ proc'[p] # proc[p]) =>
            /\ courses' = courses
            /\ proc'[p].pc = "done"
            /\ ~proc'[p].res.ok
            /\ proc'[p].res.error = ConflictMessage]_vars

\* a delete of a stored course that a review references has thrown
C5_Witness ==
    \E p \in Procs :
        /\ proc[p].pc = "done" /\ proc[p].op = "Course.delete"
        /\ proc[p].pre.nrev > 0 /\ ~proc[p].res.ok
        /\ \E c \in courses : c.id = proc[p].arg.id
        /\ \E r \in reviews : r.course_id = proc[p].arg.id

\* C6: under every interleaving of Course.delete with the review route, every stored
\* review refers to a stored course.
C6_ReviewsReferToCourses ==
    \A r \in reviews : \E c \in courses : c.id = r.course_id

\* a delete has passed its review count, and a review of the course was stored since
C6_Witness ==
    \E p \in Procs :
        /\ proc[p].pc = "cd_delete"
        /\ \E r \in reviews : r.course_id = proc[p].arg.id

\* C7: when Course.create has returned a record, findByCode of the created code
\* returns the same record, field for field.
C7_FindByCodeAfterCreate ==
    \A p \in Procs :
        LET c == proc[p]
        IN  (c.pc = "done" /\ c.op = "Course.create" /\ c.res.ok) =>
              /\ c.res.val # NoRow
              /\ findByCode(c.arg.course_code) = c.res.val

\* a create with an empty description has returned
C7_Witness ==
    \E p \in Procs :
        LET c == proc[p]
        IN  /\ c.pc = "done" /\ c.op = "Course.create" /\ c.res.ok
            /\ c.arg.description = ""
            /\ c.res.val.description = NULL
            /\ findByCode(c.arg.course_code) = c.res.val

C8_WouldDuplicate(c) ==
    \/ /\ c.pc = "cc_insert"
       /\ \E r \in courses : r.course_code = c.arg.course_code
    \/ /\ c.pc = "cu_update"
       /\ c.arg.course_code # UNDEF
       /\ \E r \in courses : r.id = c.arg.id
       /\ \E r \in courses : r.id # c.arg.id /\ r.course_code = c.arg.course_code

C8_NonNullUnique(T) ==
    \A a, b \in T : (a.id # b.id /\ a.course_code # NULL) => a.course_code # b.course_code

C9_CreateValidates ==
    [][\A p \in Procs :
          LET c == proc[p]
              d == proc'[p]
          IN  /\ (c.pc \in {"idle", "done"} /\ d # c /\ d.op = "Course.create") =>
                   IF \E f \in {d.arg.course_code, d.arg.course_name, d.arg.department} :
                         f \in {UNDEF, ""}
                   THEN /\ d.pc = "done" /\ ~d.res.ok
                        /\ d.res.error = "Missing required fields"
                        /\ courses' = courses
                   ELSE d.pc = "cc_insert" /\ courses' = courses
              /\ (c.pc = "cc_insert" /\ d.pc = "cc_reread" /\ c.arg.description = UNDEF) =>
                   \E r \in courses' \ courses :
                       r.id = d.loc.result_id /\ r.description = NULL]_vars

\* a create with an empty department and the other fields given has thrown
C9_Witness ==
    \E p \in Procs :
        LET c == proc[p]
        IN  /\ c.pc = "done" /\ c.op = "Course.create" /\ ~c.res.ok
            /\ c.res.error = "Missing required fields"
            /\ c.arg.department = ""
            /\ c.arg.course_code \in CourseCodes /\ c.arg.course_name \in CourseNames

\* C10: a professor create for a (name, department) pair that is already stored
\* answers with no id of a newly inserted row and no id of another professor's row.
C10_NoOpReportsNoOtherId ==
    \A p \in Procs :
        LET c == proc[p]
        IN  (c.pc = "done" /\ c.op = "POST /professors" /\ c.res.ok /\ c.pre.exists) =>
              \A r \in professors :
                  r.id = c.res.val.id =>
                    /\ r.name = c.arg.name
                    /\ r.department = (IF c.arg.department \in {UNDEF, ""} THEN "Unknown"
                                        ELSE c.arg.department)

\* C11: getCourseWithReviews returns review_count equal to the number of the course's
\* reviews, no average_rating exactly when the course has no review, and otherwise the
\* mean of the ratings rounded to one decimal place.
C11_AverageOfReviews ==
    \A p \in Procs :
        LET c == proc[p]
        IN  (c.pc = "done" /\ c.op = "Course.getCourseWithReviews" /\ c.res.val # NoRow) =>
              LET S == ReviewsOf(c.arg.id)
                  n == Cardinality(S)
                  sum == SumRatings(S)
                  avg == c.res.val.average_rating
              IN  /\ c.res.val.review_count = n
                  /\ (avg = NoAverage) <=> (n = 0)
                  /\ n > 0 => 2 * Abs(10 * sum - avg.tenths * n) <= n

\* C12: when a multi-step operation (Course.create, User.create,
\* findOrCreateFromMicrosoft, updateUserType, updateAlumniNetwork) has thrown, storage
\* holds no row the call inserted, and the user row and the profile rows the call
\* addresses are as they were before the call.
C12_NoPartialWrite ==
    \A p \in Procs :
        LET c == proc[p]
        IN  (c.pc = "done" /\ ~c.res.ok) =>
              /\ (c.op = "Course.create" /\ "result_id" \in DOMAIN c.loc) =>
                    Course_findById(c.loc.result_id) = NoRow
              /\ (c.op \in {"create", "findOrCreateFromMicrosoft"}
                     /\ "result_id" \in DOMAIN c.loc) =>
                    findById(c.loc.result_id) = NoRow
              /\ c.op \in {"updateUserType", "updateAlumniNetwork"} =>
                    /\ findById(c.arg.userId) = c.pre.row
                    /\ AlumniRowsOf(c.arg.userId) = c.pre.profile

\* C13: the only change an operation ever makes to a stored user's user_type is from
\* 'current' to 'alumni'.
C13_OnlyCurrentToAlumni ==
    [][\A u \in users : \A v \in users' :
          (v.id = u.id /\ v.user_type # u.user_type) =>
            (u.user_type = "current" /\ v.user_type = "alumni")]_vars

\* C14: every alumni_network row's user_id refers to a stored user whose user_type
\* is 'alumni'.
C14_ProfilesBelongToAlumni ==
    \A a \in alumni_network :
        \E u \in users : u.id = a.user_id /\ u.user_type = "alumni"

\* a successful updateAlumniNetwork on a user that existed has just returned
C15_Returned(c) ==
    c.pc = "done" /\ c.op = "updateAlumniNetwork" /\ c.res.ok /\ c.pre.user

\* C15 as stated: after a successful updateAlumniNetwork on an existing user the user is
\* 'alumni' and getAlumniNetwork returns a record whose current_employer and
\* mentorship_available are the values supplied, false when omitted.
C15_ProfileEqualsSupplied ==
    \A p \in Procs :
        LET c == proc[p]
            r == getAlumniNetwork(c.arg.userId)
        IN  C15_Returned(c) =>
              /\ findById(c.arg.userId).user_type = "alumni"
              /\ r # NoRow
              /\ r.current_employer = c.arg.current_employer
              /\ ToString(r.mentorship_available)
                    = (IF c.arg.mentorship_available = UNDEF THEN "false"
                       ELSE c.arg.mentorship_available)

\* C15, amended: ... and mentorship_available is 1 when true was supplied and 0 when
\* false or nothing was supplied.
C15_ProfileStoresSupplied ==
    \A p \in Procs :
        LET c == proc[p]
            r == getAlumniNetwork(c.arg.userId)
        IN  C15_Returned(c) =>
              /\ findById(c.arg.userId).user_type = "alumni"
              /\ r # NoRow
              /\ r.current_employer = c.arg.current_employer
              /\ r.mentorship_available
                    = (IF c.arg.mentorship_available = "true" THEN 1 ELSE 0)

\* the call reclassified a faculty user and was given no mentorship_available
C15_Witness ==
    \E p \in Procs :
        LET c == proc[p]
        IN  /\ C15_Returned(c)
            /\ c.pre.row.user_type = "faculty"
            /\ c.arg.mentorship_available = UNDEF
            /\ getAlumniNetwork(c.arg.userId).mentorship_available = 0

\* the value the claim expects stored for a field of the update: null when omitted
C16_Written(v) == IF v = UNDEF THEN NULL ELSE v

\* C16: the UPDATE of Course.update keeps every other course row, and the id and
\* created_at of the row with the given id; when it succeeds that row's course_code,
\* course_name, department and description are the given ones, null where omitted;
\* when no course has the id the table is unchanged and the call returns no course;
\* the re-read changes nothing.
C16_UpdateFrame ==
    [][\A p \in Procs :
          LET c == proc[p]
              d == proc'[p]
              a == c.arg
          IN  /\ (c.op = "Course.update" /\ c.pc = "cu_update" /\ d # c) =>
                   /\ \A r \in courses : r.id # a.id => r \in courses'
                   /\ \A r \in courses' : r.id # a.id => r \in courses
                   /\ {r.id : r \in courses'} = {r.id : r \in courses}
                   /\ Cardinality(courses') = Cardinality(courses)
                   /\ \A r \in courses : \A q \in courses' :
                          (r.id = a.id /\ q.id = a.id) =>
                            /\ q.created_at = r.created_at
                            /\ IF d.pc = "cu_reread"
                               THEN /\ q.course_code = C16_Written(a.course_code)
                                    /\ q.course_name = C16_Written(a.course_name)
                                    /\ q.department = C16_Written(a.department)
                                    /\ q.description = C16_Written(a.description)
                               ELSE q = r
                   /\ (\A r \in courses : r.id # a.id) => courses' = courses
              /\ (c.op = "Course.update" /\ c.pc = "cu_reread" /\ d # c) =>
                   /\ courses' = courses
                   /\ d.pc = "done" /\ d.res.ok
                   /\ (\A r \in courses : r.id # a.id) => d.res.val = NoRow
                   /\ \A r \in courses : r.id = a.id => d.res.val = r]_vars

\* an update that omitted the course name has returned the row, created before the
\* clock last moved, while another course is stored
C16_Witness ==
    \E p \in Procs :
        LET c == proc[p]
        IN  /\ c.pc = "done" /\ c.op = "Course.update" /\ c.res.ok
            /\ c.arg.course_name = UNDEF
            /\ c.res.val # NoRow
            /\ c.res.val.course_name = NULL
            /\ c.res.val.created_at < now
            /\ Cardinality(courses) = 2

\* an update of an id that no course has returned no course
C16_WitnessAbsent ==
    \E p \in Procs :
        LET c == proc[p]
        IN  /\ c.pc = "done" /\ c.op = "Course.update" /\ c.res.ok
            /\ c.res.val = NoRow /\ courses # {}

\* the keyword occurs in the text, letter case apart; never in a null
C17_Occurs(keyword, value) ==
    /\ value # NULL
    /\ LET k == Chars(keyword)
           t == Chars(value)
       IN  \E i \in 0..Len(t) :
               /\ i + Len(k) <= Len(t)
               /\ \A j \in 1..Len(k) : Fold(k[j]) = Fold(t[i + j])

C17_Sorted(rows) ==
    \A i, j \in 1..Len(rows) : i < j => CodeBefore(rows[i], rows[j])

\* C17: Course.search(keyword) returns exactly the stored courses in which the keyword
\* occurs, letter case apart, in course_code, course_name or description, each once,
\* in ascending order of course_code.
C17_SearchIsSubstringMatch ==
    \A p \in Procs :
        LET c == proc[p]
        IN  (c.pc = "done" /\ c.op = "Course.search" /\ c.res.ok) =>
              LET rows == c.res.val
                  k == c.arg.keyword
              IN  /\ {rows[i] : i \in 1..Len(rows)}
                       = {r \in courses : \/ C17_Occurs(k, r.course_code)
                                          \/ C17_Occurs(k, r.course_name)
                                          \/ C17_Occurs(k, r.description)}
                  /\ C17_Sorted(rows)

\* C18: Course.search(keyword) returns the sequence Course.findAll returns when called
\* with only the search term keyword.
C18_SearchEqualsFindAll ==
    \A p \in Procs :
        LET c == proc[p]
        IN  (c.pc = "done" /\ c.op = "Course.search" /\ c.res.ok) =>
              c.res.val = Course_findAll([department |-> UNDEF, search |-> c.arg.keyword])

\* C19: Course.findAll with department 'all' returns the sequence it returns with no
\* department and the same search term; with no search term that is every stored
\* course, once, in ascending order of course_code.
C19_DepartmentAllIsNoFilter ==
    \A p \in Procs :
        LET c == proc[p]
        IN  (c.pc = "done" /\ c.op = "Course.findAll" /\ c.res.ok
               /\ c.arg.department = "all") =>
              /\ c.res.val = Course_findAll([department |-> UNDEF, search |-> c.arg.search])
              /\ c.arg.search = UNDEF =>
                    /\ {c.res.val[i] : i \in 1..Len(c.res.val)} = courses
                    /\ Len(c.res.val) = Cardinality(courses)
                    /\ C17_Sorted(c.res.val)

\* findAll with department 'all' and no search term has returned courses of two
\* departments
C19_Witness ==
    \E p \in Procs :
        LET c == proc[p]
        IN  /\ c.pc = "done" /\ c.op = "Course.findAll" /\ c.res.ok
            /\ c.arg.department = "all" /\ c.arg.search = UNDEF
            /\ Len(c.res.val) = 2
            /\ c.res.val[1].department # c.res.val[2].department

\* C20: when findOrCreateFromMicrosoft has found the user and returned, the record it
\* returned is the row stored for that user, last_login included.
C20_ReturnsStoredRow ==
    \A p \in Procs :
        LET c == proc[p]
        IN  (c.pc = "done" /\ c.op = "findOrCreateFromMicrosoft" /\ c.res.ok
               /\ "user" \in DOMAIN c.loc) =>
              c.res.val = findById(c.res.val.id)

(***************************************************************************)
(* C21: updateAlumniNetwork(userId, fields) leaves the user's stored       *)
(* graduation_year equal to fields.graduation_year, or null when fields    *)
(* has no graduation_year, whatever was stored before; of the user row     *)
(* only user_type and graduation_year (and the update timestamp) differ    *)
(* from what was stored before the call, through every later statement of  *)
(* the call.                                                               *)
(***************************************************************************)
C21_GraduationYearOverwritten ==
    LET c == proc[1]
    IN  (c.op = "updateAlumniNetwork" /\ c.pc # "an_type_update" /\ c.pre.user) =>
           LET row == findById(c.arg.userId)
           IN  /\ row # NoRow
               /\ row.graduation_year = Default(c.arg.graduation_year, NULL)
               /\ row.id = c.pre.row.id
               /\ row.microsoft_id = c.pre.row.microsoft_id
               /\ row.last_login = c.pre.row.last_login
               /\ users \ {row} = {u \in users : u.id # c.arg.userId}

\* a profile update without a year has run to its last statement for a faculty user
\* who had a year stored and signed up before the clock advanced
C21_Witness ==
    LET c == proc[1]
    IN  /\ c.op = "updateAlumniNetwork" /\ c.pc = "an_reread"
        /\ c.pre.user
        /\ c.pre.row.graduation_year = "2024"
        /\ c.pre.row.user_type = "faculty"
        /\ c.arg.graduation_year = UNDEF
        /\ findById(c.arg.userId).graduation_year = NULL
        /\ findById(c.arg.userId).user_type = "alumni"
        /\ findById(c.arg.userId).last_login < now

(***************************************************************************)
(* C22: in every state that User.create, findOrCreateFromMicrosoft,        *)
(* updateUserType and updateAlumniNetwork reach, whatever user types they  *)
(* are given, every stored user's user_type is one of current, alumni,     *)
(* faculty and staff, and the total getUserStats returns is the sum of     *)
(* its four by_type counts.                                                *)
(***************************************************************************)
C22_TotalIsSumOfTypes ==
    LET stats == getUserStats
    IN  /\ \A u \in users : u.user_type \in {"current", "alumni", "faculty", "staff"}
        /\ stats.total = stats.by_type.current.count + stats.by_type.alumni.count
                            + stats.by_type.faculty.count + stats.by_type.staff.count
        /\ \A p \in Procs :
              (proc[p].op = "getUserStats" /\ proc[p].pc = "done") =>
                 /\ proc[p].res.ok
                 /\ proc[p].res.val = stats

\* getUserStats has returned two users of two kinds, one of them staff
C22_Witness ==
    LET c == proc[1]
    IN  /\ c.op = "getUserStats" /\ c.pc = "done" /\ c.res.ok
        /\ c.res.val.total = 2
        /\ c.res.val.by_type.staff.count = 1
        /\ c.res.val.by_type.alumni.count = 1

\* an updateUserType to a kind the table does not admit was rejected, the user kept
\* the kind it had
C22_WitnessRejected ==
    LET c == proc[1]
    IN  /\ c.op = "updateUserType" /\ c.pc = "done" /\ ~c.res.ok
        /\ c.arg.userType = "admin"
        /\ findById(c.arg.userId) # NoRow
        /\ findById(c.arg.userId).user_type = "staff"

====
